---- MODULE Spec2Model ----
(***************************************************************************)
(* NanoVNASaver/Touchstone.py: the Touchstone 1.1 parser (class Touchstone)*)
(* and its option-line interpreter (class Options).                        *)
(*                                                                         *)
(* Text.  A Python str token is a sequence of one-character strings        *)
(* (<<"g","h","z">> is "ghz"), so that str.lower, str.upper, startswith,   *)
(* the substring test `p in "syzgh"`, int() and float() are computed on    *)
(* characters.  A line is the sequence of its whitespace-separated tokens  *)
(* (what str.split() yields); surrounding whitespace is not represented,   *)
(* so str.strip() keeps a line as it is and a blank line is <<>>.          *)
(*                                                                         *)
(* Spec follows one Touchstone instance through calls of loads(s) and of   *)
(* load(), which reads the file and calls loads on its text.  The text is  *)
(* read a line at a time, as loads reads it from its StringIO: each step   *)
(* of Spec is one pass of a loop of loads (_parse_comments, then the data  *)
(* loop) over the next line, or the end of the text.  A call ends by       *)
(* returning or by raising; exc records which, and logged what load gave   *)
(* to its logger instead of raising.                                       *)
(*                                                                         *)
(* SpecOpt follows one Options instance through calls of parse(line), and  *)
(* of parse(str(o)).                                                       *)
(*                                                                         *)
(* Numbers.  Frequencies and values are the integers the literals of the   *)
(* inputs denote; float arithmetic on them is exact (at most 2 * 10^9).    *)
(***************************************************************************)
EXTENDS Integers, Sequences, FiniteSets, TLC

\* ------------------------------------------------------------------ text

UPPER == <<"A","B","C","D","E","F","G","H","I","J","K","L","M",
           "N","O","P","Q","R","S","T","U","V","W","X","Y","Z">>

LOWER == <<"a","b","c","d","e","f","g","h","i","j","k","l","m",
           "n","o","p","q","r","s","t","u","v","w","x","y","z">>

DIGITS == <<"0","1","2","3","4","5","6","7","8","9">>

\* s.index(c): the first place of character c in s
IndexIn(c, s) == CHOOSE i \in 1..Len(s) : s[i] = c /\ \A j \in 1..(i - 1) : s[j] # c

IsOneOf(c, s) == \E i \in 1..Len(s) : s[i] = c

\* str.lower() and str.upper(), one character and one token
lower_char(c) == IF IsOneOf(c, UPPER) THEN LOWER[IndexIn(c, UPPER)] ELSE c

upper_char(c) == IF IsOneOf(c, LOWER) THEN UPPER[IndexIn(c, LOWER)] ELSE c

lower(t) == [i \in 1..Len(t) |-> lower_char(t[i])]

upper(t) == [i \in 1..Len(t) |-> upper_char(t[i])]

lower_line(line) == [i \in 1..Len(line) |-> lower(line[i])]

upper_line(line) == [i \in 1..Len(line) |-> upper(line[i])]

\* line.startswith(c), c one character
startswith(line, c) == Len(line) > 0 /\ line[1][1] = c

\* line[1:].split(): the tokens of the line without its first character
strip_first_char(line) ==
    IF Len(line) = 0 THEN <<>>
    ELSE IF Len(line[1]) = 1 THEN Tail(line)
    ELSE <<Tail(line[1])>> \o Tail(line)

\* `p in s` for two Python strings: p is a substring of s
InStr(p, s) ==
    \E i \in 1..(Len(s) + 1) :
        /\ i + Len(p) - 1 <= Len(s)
        /\ SubSeq(s, i, i + Len(p) - 1) = p

IsDigits(t) == Len(t) > 0 /\ \A i \in 1..Len(t) : IsOneOf(t[i], DIGITS)

RECURSIVE DigitsVal(_)
DigitsVal(t) ==
    IF Len(t) = 0 THEN 0
    ELSE 10 * DigitsVal(SubSeq(t, 1, Len(t) - 1)) + (IndexIn(t[Len(t)], DIGITS) - 1)

Unsigned(t) == IF Len(t) > 0 /\ t[1] \in {"+", "-"} THEN Tail(t) ELSE t

\* int(t): an optional sign and decimal digits; anything else is a ValueError
IsIntLiteral(t) == IsDigits(Unsigned(t))

IntOf(t) ==
    IF Len(t) > 0 /\ t[1] = "-" THEN 0 - DigitsVal(Unsigned(t))
    ELSE DigitsVal(Unsigned(t))

\* float(t), on the literals of the inputs: an optional sign, decimal digits
\* and an optional fraction of zeros ("3", "-4", "1.0"); the value is then
\* an integer.  Any other token of the inputs ("x") is a ValueError.
DotAt(t) == IF IsOneOf(".", t) THEN IndexIn(".", t) ELSE Len(t) + 1

IsFloatLiteral(t) ==
    LET u == Unsigned(t)
        d == DotAt(u)
    IN  /\ IsDigits(SubSeq(u, 1, d - 1))
        /\ \A i \in (d + 1)..Len(u) : u[i] = "0"

FloatOf(t) ==
    LET u == Unsigned(t)
        v == DigitsVal(SubSeq(u, 1, DotAt(u) - 1))
    IN  IF Len(t) > 0 /\ t[1] = "-" THEN 0 - v ELSE v

\* str(n) of an int
RECURSIVE NatStr(_)
NatStr(n) ==
    IF n < 10 THEN <<DIGITS[n + 1]>>
    ELSE NatStr(n \div 10) \o <<DIGITS[(n % 10) + 1]>>

IntStr(n) == IF n < 0 THEN <<"-">> \o NatStr(0 - n) ELSE NatStr(n)

\* --------------------------------------------------------------- tokens

t_ghz == <<"g","h","z">>

t_mhz == <<"m","h","z">>

t_khz == <<"k","h","z">>

t_hz == <<"h","z">>

t_ma == <<"m","a">>

t_db == <<"d","b">>

t_ri == <<"r","i">>

t_r == <<"r">>

t_hash == <<"#">>

t_bang == <<"!">>

\* ----------------------------------------------------------- exceptions

NoExc == [type |-> "none", msg |-> "none"]

Raise(type, msg) == [type |-> type, msg |-> msg]

NotAnOptionLine == Raise("TypeError", "Not an option line")

IllegalOptionLine == Raise("TypeError", "Illegial option line")

NotAscending == Raise("TypeError", "Frequeny not ascending")

NotPairs == Raise("TypeError", "Data values aren't pairs")

Inconsistent == Raise("TypeError", "Inconsistent number of pairs")

PolarArgs == Raise("TypeError", "cmath.polar() takes exactly one argument (2 given)")

NoSetter == Raise("AttributeError", "property 'factor' of 'Options' object has no setter")

NoneStartswith == Raise("AttributeError", "'NoneType' object has no attribute 'startswith'")

StopIteration == Raise("StopIteration", "")

IntValueError == Raise("ValueError", "invalid literal for int() with base 10")

FloatValueError == Raise("ValueError", "could not convert string to float")

IndexError == Raise("IndexError", "list index out of range")

IOError == Raise("IOError", "No such file or directory")

\* -------------------------------------------------------- class Options

UNIT_TO_FACTOR(u) ==
    CASE u = t_ghz -> 10^9
      [] u = t_mhz -> 10^6
      [] u = t_khz -> 10^3
      [] u = t_hz  -> 10^0

VALID_UNITS == {t_ghz, t_mhz, t_khz, t_hz}

VALID_PARAMETERS == <<"s","y","z","g","h">>

VALID_FORMATS == {t_ma, t_db, t_ri}

\* Options.__init__: the four asserts, then the lower-cased settings
OptionsArgsOk(unit, parameter, t_format, resistance) ==
    /\ lower(unit) \in VALID_UNITS
    /\ InStr(lower(parameter), VALID_PARAMETERS)
    /\ lower(t_format) \in VALID_FORMATS
    /\ resistance > 0

Options(unit, parameter, t_format, resistance) ==
    [unit |-> lower(unit), parameter |-> lower(parameter),
     format |-> lower(t_format), resistance |-> resistance]

DefaultOptions == Options(<<"G","H","Z">>, <<"S">>, t_ma, 50)

\* the property Options.factor (read)
factor(o) == UNIT_TO_FACTOR(o.unit)

\* `self.factor = Options.UNIT_TO_FACTOR[p]`: factor is a property with a
\* getter only, so the assignment raises AttributeError and sets nothing.
set_factor(o, p) == [opts |-> o, exc |-> NoSetter]

\* Options.__str__
Options_str(o) ==
    upper_line(<<t_hash, o.unit, o.parameter, o.format, t_r, IntStr(o.resistance)>>)

\* the for loop of Options.parse over the iterator params, at token i
RECURSIVE parse_loop(_, _, _, _, _, _, _)
parse_loop(o, params, i, pfact, pparam, pformat, presist) ==
    IF i > Len(params) THEN [opts |-> o, exc |-> NoExc]
    ELSE LET p == params[i] IN
        IF p \in VALID_UNITS /\ ~pfact THEN
            LET r == set_factor(o, p) IN
            IF r.exc # NoExc THEN r
            ELSE parse_loop(r.opts, params, i + 1, TRUE, pparam, pformat, presist)
        ELSE IF InStr(p, VALID_PARAMETERS) /\ ~pparam THEN
            parse_loop([o EXCEPT !.parameter = p], params, i + 1,
                       pfact, TRUE, pformat, presist)
        ELSE IF p \in VALID_FORMATS /\ ~pformat THEN
            parse_loop([o EXCEPT !.format = p], params, i + 1,
                       pfact, pparam, TRUE, presist)
        ELSE IF p = t_r /\ ~presist THEN
            \* int(next(params)); presist is never set
            IF i + 1 > Len(params) THEN [opts |-> o, exc |-> StopIteration]
            ELSE IF ~IsIntLiteral(params[i + 1]) THEN [opts |-> o, exc |-> IntValueError]
            ELSE parse_loop([o EXCEPT !.resistance = IntOf(params[i + 1])],
                            params, i + 2, pfact, pparam, pformat, presist)
        ELSE [opts |-> o, exc |-> IllegalOptionLine]

\* Options.parse(line)
Options_parse(o, line) ==
    IF ~startswith(line, "#") THEN [opts |-> o, exc |-> NotAnOptionLine]
    ELSE parse_loop(o, lower_line(strip_first_char(line)), 1,
                    FALSE, FALSE, FALSE, FALSE)

\* ------------------------------------------------------ class Touchstone

\* RFTools.Datapoint(freq, re, im)
Datapoint(freq, re, im) == [freq |-> freq, re |-> re, im |-> im]

\* Touchstone.__init__: sdata = [[], [], [], []]; slot k of the source
\* (0..3) is sdata[k + 1]
NSLOTS == 4

EmptySdata == [k \in 1..NSLOTS |-> <<>>]

\* list.append on the k-th list of sdata
slot_append(sd, k, point) == [sd EXCEPT ![k] = Append(@, point)]

\* line.split('!')[0].split(): the tokens before the first '!'
HasBang(t) == IsOneOf("!", t)

before_bang(line) ==
    IF \E i \in 1..Len(line) : HasBang(line[i]) THEN
        LET i == CHOOSE i \in 1..Len(line) :
                     HasBang(line[i]) /\ \A j \in 1..(i - 1) : ~HasBang(line[j])
            pre == SubSeq(line[i], 1, IndexIn("!", line[i]) - 1)
        IN  SubSeq(line, 1, i - 1) \o (IF Len(pre) = 0 THEN <<>> ELSE <<pre>>)
    ELSE line

\* The for loop of _append_line_data: vals is at data[i], data_list at
\* sdata[k].  Python evaluates next(data_list) before the arguments of
\* append, and float(v) before next(vals).
RECURSIVE append_loop(_, _, _, _, _, _)
append_loop(sd, fmt, freq, data, i, k) ==
    IF i > Len(data) THEN [sdata |-> sd, exc |-> NoExc]
    ELSE IF fmt = t_ri THEN
        IF k > NSLOTS THEN [sdata |-> sd, exc |-> StopIteration]
        ELSE IF ~IsFloatLiteral(data[i]) THEN [sdata |-> sd, exc |-> FloatValueError]
        ELSE IF i + 1 > Len(data) THEN [sdata |-> sd, exc |-> StopIteration]
        ELSE IF ~IsFloatLiteral(data[i + 1]) THEN [sdata |-> sd, exc |-> FloatValueError]
        ELSE append_loop(
                 slot_append(sd, k, Datapoint(freq, FloatOf(data[i]), FloatOf(data[i + 1]))),
                 fmt, freq, data, i + 2, k + 1)
    ELSE IF fmt \in {t_ma, t_db} THEN
        \* cmath.polar(r, phi) is called with two arguments: TypeError,
        \* raised once both arguments are evaluated
        IF ~IsFloatLiteral(data[i]) THEN [sdata |-> sd, exc |-> FloatValueError]
        ELSE IF i + 1 > Len(data) THEN [sdata |-> sd, exc |-> StopIteration]
        ELSE IF ~IsFloatLiteral(data[i + 1]) THEN [sdata |-> sd, exc |-> FloatValueError]
        ELSE [sdata |-> sd, exc |-> PolarArgs]
    ELSE append_loop(sd, fmt, freq, data, i + 1, k)

\* a fault: data_list starts at the second list of sdata
append_line_data_second_slot(sd, o, freq, data) ==
    append_loop(sd, o.format, freq, data, 1, 2)

\* Touchstone._append_line_data(freq, data)
append_line_data(sd, o, freq, data) == append_loop(sd, o.format, freq, data, 1, 1)

\* a fault: `freq < prev_freq`, which lets an equal frequency pass
not_ascending_strict(freq, prev) == freq < prev

\* the checks of loads on one data line
not_ascending(freq, prev) == freq <= prev

first_data_line(plen) == plen = 0

not_pairs(data_len) == data_len % 2 = 1

inconsistent(data_len, plen) == data_len # plen

\* One pass of the for loop of loads over a line of the body: the locals
\* prev_freq and prev_len and sdata after it, and the exception it raises.
loads_line(sd, o, pfreq, plen, line) ==
    LET keep == [sdata |-> sd, prev_freq |-> pfreq, prev_len |-> plen, exc |-> NoExc]
        toks == before_bang(line)
    IN
    IF Len(line) = 0 THEN keep
    ELSE IF Len(toks) = 0 THEN [keep EXCEPT !.exc = IndexError]
    ELSE IF ~IsFloatLiteral(toks[1]) THEN [keep EXCEPT !.exc = FloatValueError]
    ELSE
        LET freq == FloatOf(toks[1]) * factor(o)
            data == Tail(toks)
            data_len == Len(data)
        IN
        IF not_ascending(freq, pfreq) THEN [keep EXCEPT !.exc = NotAscending]
        ELSE IF first_data_line(plen) /\ not_pairs(data_len) THEN
            [keep EXCEPT !.prev_freq = freq, !.prev_len = data_len, !.exc = NotPairs]
        ELSE IF ~first_data_line(plen) /\ inconsistent(data_len, plen) THEN
            [keep EXCEPT !.prev_freq = freq, !.exc = Inconsistent]
        ELSE
            LET r == append_line_data(sd, o, freq, data) IN
            [sdata |-> r.sdata, prev_freq |-> freq,
             prev_len |-> IF first_data_line(plen) THEN data_len ELSE plen,
             exc |-> r.exc]

\* ---------------------------------------------------------------- inputs

\* Bounds of the model: the lines one parser instance reads over all its
\* calls, the pairs on a data line (a line has up to 2 * MaxPairs + 1
\* values), and the items on an option line given to Options.parse alone.
MaxLines == 5

MaxPairs == 5

MaxOptItems == 2

Tok1(c) == <<c>>

ValuesA == << <<"3">>, <<"-","4">>, <<"1">>, <<"0">>, <<"2">>, <<"9","0">>,
              <<"0">>, <<"2","0">>, <<"5">>, <<"1",".","0">> >>

\* the first n value tokens of the pattern, repeated when n is beyond its end
Values(n) == [j \in 1..n |-> ValuesA[((j - 1) % Len(ValuesA)) + 1]]

FreqTokens == {<<"1">>, <<"2">>}

CommentText == <<t_bang, <<"c">>>>

\* how many values a data line has: 0 to MaxPairs pairs, or an odd number
ValueCounts == {2 * n : n \in 0..MaxPairs} \cup {1, 2 * MaxPairs + 1}

\* lines of the data part of a body: a frequency and values, and lines with
\* a comment, a blank line, lines with a frequency of 0, a frequency or a
\* value that is no number, and the line "1 0 0 20 0"
DataLines ==
    {<<f>> \o Values(n) : f \in FreqTokens, n \in ValueCounts}
    \cup {<<>>,
          <<Tok1("1"), Tok1("0"), Tok1("0"), <<"2","0">>, Tok1("0")>>,
          CommentText,
          <<Tok1("1"), Tok1("3"), <<"-","4">>>> \o CommentText,
          <<Tok1("2"), Tok1("3"), <<"-","4","!","c">>>>,
          <<Tok1("0"), Tok1("3"), <<"-","4">>>>,
          <<Tok1("x"), Tok1("3"), <<"-","4">>>>,
          <<Tok1("1"), Tok1("3"), <<"-","4">>, Tok1("1"), Tok1("x")>>}

\* lines of the head of a body: comments, option lines, and lines that are neither
HeadComments == {CommentText, <<<<"!","d">>>>}

LoadOptLines ==
    {<<t_hash>>,
     <<t_hash, <<"D","B">>>>,
     <<t_hash, <<"S">>, t_ri, <<"R">>, <<"7","5">>>>,
     <<t_hash, <<"M","H","z">>, t_ri>>,
     <<t_hash, t_ri, t_ghz>>}

HeadOthers == {<<>>, <<Tok1("1"), Tok1("3"), <<"-","4">>>>}

\* ------------------------------------------------------------------ state

VARIABLES
    opts,       \* Touchstone.opts (Spec); the Options instance (SpecOpt)
    sdata,      \* Touchstone.sdata
    comments,   \* Touchstone.comments
    pc,         \* where loads is: "idle", "comments" (_parse_comments), "data"
    prev_freq,  \* local of loads
    prev_len,   \* local of loads
    exc,        \* what the last finished call raised (NoExc: it returned)
    logged,     \* what load passed to logger.exception in that call (NoExc: nothing)
    op,         \* the call running or last finished: "new", "loads", "load",
                \* "parse", "str_parse"
    body,       \* history: the lines the current or last call has read
    entry,      \* history: opts, sdata and comments when that call began
    nlines      \* history: lines read by this instance so far

vars == <<opts, sdata, comments, pc, prev_freq, prev_len, exc, logged, op, body, entry, nlines>>

Snapshot == [opts |-> opts, sdata |-> sdata, comments |-> comments]

\* Touchstone.__init__
Init ==
    /\ opts = DefaultOptions
    /\ sdata = EmptySdata
    /\ comments = <<>>
    /\ pc = "idle"
    /\ prev_freq = 0
    /\ prev_len = 0
    /\ exc = NoExc
    /\ logged = NoExc
    /\ op = "new"
    /\ body = <<>>
    /\ entry = [opts |-> DefaultOptions, sdata |-> EmptySdata, comments |-> <<>>]
    /\ nlines = 0

\* a fault: loads starts from empty series
LoadsBegin_reset ==
    /\ pc = "idle"
    /\ pc' = "comments"
    /\ op' = "loads"
    /\ exc' = NoExc
    /\ logged' = NoExc
    /\ body' = <<>>
    /\ entry' = Snapshot
    /\ sdata' = EmptySdata
    /\ UNCHANGED <<opts, comments, prev_freq, prev_len, nlines>>

\* a fault: loads starts from new Options()
LoadsBegin_new_opts ==
    /\ pc = "idle"
    /\ pc' = "comments"
    /\ op' = "loads"
    /\ exc' = NoExc
    /\ logged' = NoExc
    /\ body' = <<>>
    /\ entry' = Snapshot
    /\ opts' = DefaultOptions
    /\ UNCHANGED <<sdata, comments, prev_freq, prev_len, nlines>>

\* loads(s) is entered: the StringIO is opened
LoadsBegin ==
    /\ pc = "idle"
    /\ pc' = "comments"
    /\ op' = "loads"
    /\ exc' = NoExc
    /\ logged' = NoExc
    /\ body' = <<>>
    /\ entry' = Snapshot
    /\ UNCHANGED <<opts, sdata, comments, prev_freq, prev_len, nlines>>

\* the except clauses of load: the exceptions it logs and does not raise
load_catches(e) == e.type \in {"TypeError", "IOError"}

\* load() is entered, the file is opened and read, and loads(text) is entered
LoadBegin ==
    /\ pc = "idle"
    /\ pc' = "comments"
    /\ op' = "load"
    /\ exc' = NoExc
    /\ logged' = NoExc
    /\ body' = <<>>
    /\ entry' = Snapshot
    /\ UNCHANGED <<opts, sdata, comments, prev_freq, prev_len, nlines>>

\* load() is entered and open raises IOError: it is logged, load returns
LoadOpenFails ==
    /\ pc = "idle"
    /\ op' = "load"
    /\ exc' = IF load_catches(IOError) THEN NoExc ELSE IOError
    /\ logged' = IF load_catches(IOError) THEN IOError ELSE NoExc
    /\ body' = <<>>
    /\ entry' = Snapshot
    /\ UNCHANGED <<opts, sdata, comments, pc, prev_freq, prev_len, nlines>>

\* loads ends, returning (e = NoExc) or raising e; its locals are gone.
\* Under load, an exception of the except clauses is logged and load returns.
Finish(e) ==
    /\ pc' = "idle"
    /\ exc' = IF op = "load" /\ load_catches(e) THEN NoExc ELSE e
    /\ logged' = IF op = "load" /\ load_catches(e) THEN e ELSE NoExc
    /\ op' = op
    /\ prev_freq' = 0
    /\ prev_len' = 0

Read(line) ==
    /\ nlines < MaxLines
    /\ nlines' = nlines + 1
    /\ body' = Append(body, line)

\* a fault: the comment is inserted at the front of comments
ReadComment_front ==
    /\ pc = "comments"
    /\ \E line \in HeadComments \cup LoadOptLines \cup HeadOthers :
        /\ startswith(line, "!")
        /\ Read(line)
        /\ comments' = <<line>> \o comments
    /\ UNCHANGED <<opts, sdata, pc, prev_freq, prev_len, exc, logged, op, entry>>

\* _parse_comments: a line that starts with "!" is appended to comments
ReadComment ==
    /\ pc = "comments"
    /\ \E line \in HeadComments \cup LoadOptLines \cup HeadOthers :
        /\ startswith(line, "!")
        /\ Read(line)
        /\ comments' = Append(comments, line)
    /\ UNCHANGED <<opts, sdata, pc, prev_freq, prev_len, exc, logged, op, entry>>

\* _parse_comments returns the first other line; loads passes it to
\* Options.parse and sets prev_freq = 0.0, prev_len = 0
ReadOptions ==
    /\ pc = "comments"
    /\ \E line \in HeadComments \cup LoadOptLines \cup HeadOthers :
        /\ ~startswith(line, "!")
        /\ Read(line)
        /\ LET r == Options_parse(opts, line) IN
            /\ opts' = r.opts
            /\ IF r.exc = NoExc
               THEN /\ pc' = "data"
                    /\ prev_freq' = 0
                    /\ prev_len' = 0
                    /\ UNCHANGED <<exc, logged, op>>
               ELSE Finish(r.exc)
    /\ UNCHANGED <<sdata, comments, entry>>

\* _parse_comments reaches the end of the text and returns None;
\* Options.parse(None) evaluates None.startswith
CommentsEOF ==
    /\ pc = "comments"
    /\ Finish(NoneStartswith)
    /\ UNCHANGED <<opts, sdata, comments, body, entry, nlines>>

\* one line of the data loop of loads
ReadData ==
    /\ pc = "data"
    /\ \E line \in DataLines :
        /\ Read(line)
        /\ LET r == loads_line(sdata, opts, prev_freq, prev_len, line) IN
            /\ sdata' = r.sdata
            /\ IF r.exc = NoExc
               THEN /\ prev_freq' = r.prev_freq
                    /\ prev_len' = r.prev_len
                    /\ UNCHANGED <<pc, exc, logged, op>>
               ELSE Finish(r.exc)
    /\ UNCHANGED <<opts, comments, entry>>

\* the data loop reaches the end of the text: loads returns
DataEOF ==
    /\ pc = "data"
    /\ Finish(NoExc)
    /\ UNCHANGED <<opts, sdata, comments, body, entry, nlines>>

Next ==
    \/ LoadsBegin
    \/ LoadBegin
    \/ LoadOpenFails
    \/ ReadComment
    \/ ReadOptions
    \/ CommentsEOF
    \/ ReadData
    \/ DataEOF

Spec == Init /\ [][Next]_vars

\* ------------------------------------------ Options on its own (SpecOpt)

\* what an option line is made of: a keyword of each category, `r` with
\* its value, and another word
OptItems ==
    {<<<<"M","H","z">>>>,
     <<<<"S">>>>,
     <<t_ri>>,
     <<<<"R">>, <<"7","5">>>>,
     <<<<"x","h","z">>>>}

RECURSIVE ItemSeqs(_)
ItemSeqs(n) ==
    IF n = 0 THEN {<<>>}
    ELSE LET shorter == ItemSeqs(n - 1) IN
         shorter \cup {s \o item : s \in shorter, item \in OptItems}

\* option lines: "#" and up to MaxOptItems items, and lines with a word
\* inside "syzgh", `r` last, `r` before a word or a negative number, "#"
\* joined to a keyword, no "#", and the line "# XHZ S MA R 50"
OptLines ==
    {<<t_hash>> \o s : s \in ItemSeqs(MaxOptItems)}
    \cup {<<t_hash, <<"s","y">>>>,
          <<t_hash, t_r>>,
          <<t_hash, t_r, <<"x">>>>,
          <<t_hash, t_r, <<"-","5">>>>,
          <<t_hash, t_db>>,
          <<t_hash, t_hz>>,
          <<<<"#","r","i">>>>,
          <<t_ri>>,
          <<>>,
          <<t_hash, <<"X","H","Z">>, <<"S">>, <<"M","A">>, <<"R">>, <<"5","0">>>>}

\* Options(unit=u): the instances the model starts from
CtorUnits == {<<"G","H","Z">>, <<"M","H","z">>}

InitOpt ==
    /\ \E u \in CtorUnits :
        /\ OptionsArgsOk(u, <<"S">>, t_ma, 50)
        /\ opts = Options(u, <<"S">>, t_ma, 50)
    /\ sdata = EmptySdata
    /\ comments = <<>>
    /\ pc = "idle"
    /\ prev_freq = 0
    /\ prev_len = 0
    /\ exc = NoExc
    /\ logged = NoExc
    /\ op = "new"
    /\ body = <<>>
    /\ entry = [opts |-> opts, sdata |-> EmptySdata, comments |-> <<>>]
    /\ nlines = 0

\* opts.parse(line)
OptParse ==
    /\ \E line \in OptLines :
        LET r == Options_parse(opts, line) IN
        /\ opts' = r.opts
        /\ exc' = r.exc
        /\ body' = <<line>>
    /\ op' = "parse"
    /\ entry' = Snapshot
    /\ UNCHANGED <<sdata, comments, pc, prev_freq, prev_len, logged, nlines>>

\* t.parse(str(opts)), t this instance or a new Options(); t is the
\* instance the model follows from there
OptStrParse ==
    /\ \E t \in {opts, DefaultOptions} :
        LET r == Options_parse(t, Options_str(opts)) IN
        /\ opts' = r.opts
        /\ exc' = r.exc
    /\ body' = <<Options_str(opts)>>
    /\ op' = "str_parse"
    /\ entry' = Snapshot
    /\ UNCHANGED <<sdata, comments, pc, prev_freq, prev_len, logged, nlines>>

NextOpt ==
    \/ OptParse
    \/ OptStrParse

SpecOpt == InitOpt /\ [][NextOpt]_vars

\* ================================================================ claims

\* ---- what the history variables say about the body being read

Last(seq) == seq[Len(seq)]

IsPrefix(s, t) == Len(s) <= Len(t) /\ SubSeq(t, 1, Len(s)) = s

\* the place in b of the line given to Options.parse: the first line that
\* does not start with "!" (Len(b) + 1 when there is none yet)
OptIndex(b) ==
    IF \E i \in 1..Len(b) : ~startswith(b[i], "!")
    THEN CHOOSE i \in 1..Len(b) :
             ~startswith(b[i], "!") /\ \A j \in 1..(i - 1) : startswith(b[j], "!")
    ELSE Len(b) + 1

HeadComments_of(b) == SubSeq(b, 1, OptIndex(b) - 1)

RECURSIVE NonBlank(_)
NonBlank(b) ==
    IF Len(b) = 0 THEN <<>>
    ELSE IF Len(b[1]) = 0 THEN NonBlank(Tail(b))
    ELSE <<b[1]>> \o NonBlank(Tail(b))

\* the non-blank lines of b after the options line
DataPart(b) == NonBlank(SubSeq(b, OptIndex(b) + 1, Len(b)))

\* a data line's frequency field and value fields, the inline comment dropped
Fields(line) == before_bang(line)

HasFreq(line) == Len(Fields(line)) > 0 /\ IsFloatLiteral(Fields(line)[1])

FreqField(line) == FloatOf(Fields(line)[1])

NumValues(line) == Len(Fields(line)) - 1

ValueField(line, j) == FloatOf(Fields(line)[j + 1])

AllNumeric(line) == \A j \in 1..Len(Fields(line)) : IsFloatLiteral(Fields(line)[j])

\* what loads raised in the last finished call, to its caller or to load
LoadsRaised == IF logged # NoExc THEN logged ELSE exc

\* a step that reads one line of the data part, and that line
ReadsDataLine == pc = "data" /\ nlines' = nlines + 1

LineRead == Last(body')

\* the unit keywords of an option line
OptTokens(line) == lower_line(strip_first_char(line))

UnitsNamed(line) == {OptTokens(line)[i] : i \in 1..Len(OptTokens(line))} \cap VALID_UNITS

\* the factor the specification gives each unit
FactorOf(u) ==
    CASE u = t_hz -> 1
      [] u = t_khz -> 1000
      [] u = t_mhz -> 1000000
      [] u = t_ghz -> 1000000000

\* the points added to slot k since the call began
NewPoints(k) == SubSeq(sdata[k], Len(entry.sdata[k]) + 1, Len(sdata[k]))

\* C1: in every reachable state, whatever load_from_text calls were made and
\* however they ended, each of the four series is strictly ascending in
\* frequency: each point's frequency is greater than that of the point
\* before it in the same slot.
C1_SeriesStrictlyAscending ==
    \A k \in 1..NSLOTS :
        \A i \in 1..(Len(sdata[k]) - 1) : sdata[k][i + 1].freq > sdata[k][i].freq

\* C2: when the options line of a body declares a unit keyword u (any
\* letter case), load_from_text parses that line without failing, the unit
\* recorded is u, and every point stored by the call has the frequency
\* field of a line of the body multiplied by factor(u).
C2_UnitRecordedAndScaled ==
    (/\ op = "loads" \/ pc # "idle"
     /\ OptIndex(body) <= Len(body)
     /\ startswith(body[OptIndex(body)], "#")
     /\ Cardinality(UnitsNamed(body[OptIndex(body)])) = 1)
    =>
    LET u == CHOOSE x \in UnitsNamed(body[OptIndex(body)]) : TRUE IN
    /\ ~(pc = "idle" /\ LoadsRaised # NoExc /\ Len(body) = OptIndex(body))
    /\ opts.unit = u
    /\ \A k \in 1..NSLOTS : \A i \in 1..Len(NewPoints(k)) :
           \E j \in 1..Len(DataPart(body)) :
               /\ HasFreq(DataPart(body)[j])
               /\ NewPoints(k)[i].freq = FreqField(DataPart(body)[j]) * FactorOf(u)

\* the rectangular form of (magnitude, angle in degrees) at the right angles
RectRe(mag, deg) == CASE deg = 0 -> mag [] deg = 90 -> 0

RectIm(mag, deg) == CASE deg = 0 -> 0 [] deg = 90 -> mag

\* C3: with format ma, a data line with an even number of values is
\* accepted and each pair (magnitude, angle in degrees) appends one point to
\* its slot, in rectangular form: (1, 0) gives real 1, imaginary 0 and
\* (2, 90) gives real 0, imaginary 2.  Stated for the first data line of a
\* body, with 1 to 4 pairs of numbers and a frequency above 0.
C3_MaStep ==
    (/\ ReadsDataLine
     /\ opts.format = t_ma
     /\ Len(DataPart(body)) = 0
     /\ HasFreq(LineRead) /\ AllNumeric(LineRead)
     /\ FreqField(LineRead) > 0
     /\ NumValues(LineRead) \in {2 * n : n \in 1..NSLOTS})
    =>
    /\ pc' = "data"
    /\ \A i \in 1..(NumValues(LineRead) \div 2) :
        LET mag == ValueField(LineRead, 2 * i - 1)
            deg == ValueField(LineRead, 2 * i)
        IN  /\ Len(sdata'[i]) = Len(sdata[i]) + 1
            /\ Last(sdata'[i]).freq = FreqField(LineRead) * FactorOf(opts.unit)
            /\ deg \in {0, 90} =>
                /\ Last(sdata'[i]).re = RectRe(mag, deg)
                /\ Last(sdata'[i]).im = RectIm(mag, deg)

\* C3: every step that reads such a line with format ma accepts it and
\* appends each pair's rectangular point (C3_MaStep).
C3_MaPairsAppended == [][C3_MaStep]_vars

\* C4: with format ri, an accepted data line with 2k values (1 <= k <= 4)
\* appends exactly one point to each of slots 0..k-1, the i-th pair (v1, v2)
\* to slot i-1 with the line's frequency in Hz, real v1 and imaginary v2,
\* and leaves slots k..3 as they were; so after a successful load of n such
\* lines into a new parser, slots 0..k-1 hold n points each and the others
\* none.
C4_RiStep ==
    (/\ ReadsDataLine
     /\ opts.format = t_ri
     /\ pc' = "data"
     /\ Len(LineRead) > 0
     /\ NumValues(LineRead) \in {2 * n : n \in 1..NSLOTS})
    =>
    LET k == NumValues(LineRead) \div 2 IN
    /\ \A i \in 1..k :
        sdata'[i] = Append(sdata[i],
                           Datapoint(FreqField(LineRead) * FactorOf(opts.unit),
                                     ValueField(LineRead, 2 * i - 1),
                                     ValueField(LineRead, 2 * i)))
    /\ \A i \in (k + 1)..NSLOTS : sdata'[i] = sdata[i]

C4_Lengths ==
    \A k \in 1..NSLOTS :
        (/\ pc = "idle" /\ op = "loads" /\ exc = NoExc
         /\ opts.format = t_ri
         /\ entry.sdata = EmptySdata
         /\ \A j \in 1..Len(DataPart(body)) : NumValues(DataPart(body)[j]) = 2 * k)
        =>
        /\ \A i \in 1..k : Len(sdata[i]) = Len(DataPart(body))
        /\ \A i \in (k + 1)..NSLOTS : Len(sdata[i]) = 0

\* C4: every accepted ri line of 2k values appends one point to each of
\* slots 0..k-1 and to no other (C4_RiStep), and a successful load of n such
\* lines into a new parser leaves n points in each of them (C4_Lengths).
C4_RiPairsToSlots == [][C4_RiStep]_vars /\ []C4_Lengths

\* reached: a new parser has loaded two lines of four pairs each
C4_Witness ==
    /\ pc = "idle" /\ op = "loads" /\ exc = NoExc
    /\ opts.format = t_ri
    /\ entry.sdata = EmptySdata
    /\ \A k \in 1..NSLOTS : Len(sdata[k]) = 2
    /\ sdata[1][1] = Datapoint(10^9, 3, -4)
    /\ sdata[4][2] = Datapoint(2 * 10^9, 0, 20)

\* the values the specification allows each setting
PARAM_KEYWORDS == {<<"s">>, <<"y">>, <<"z">>, <<"g">>, <<"h">>}

ValidOptions(o) ==
    /\ o.unit \in VALID_UNITS
    /\ o.parameter \in PARAM_KEYWORDS
    /\ o.format \in VALID_FORMATS
    /\ o.resistance > 0

\* C5: for every valid Options value, Options.parse of the string that
\* Options.__str__ gives succeeds and leaves the parsing instance with the
\* same (unit, parameter, format, resistance).
C5_RoundTrip ==
    (op = "str_parse" /\ ValidOptions(entry.opts))
    => (exc = NoExc /\ opts = entry.opts)

\* C6: the number of values on the first data line of a body is the column
\* count of the whole body, whatever it is (zero included): an odd count
\* there fails with the pairing error, and every later data line with
\* another count fails with the consistency error.  Stated for lines whose
\* frequency passes the ascending check.
C6_Step ==
    (/\ ReadsDataLine
     /\ Len(LineRead) > 0
     /\ HasFreq(LineRead)
     /\ FreqField(LineRead) * FactorOf(opts.unit) > prev_freq)
    =>
    IF Len(DataPart(body)) = 0
    THEN NumValues(LineRead) % 2 = 1 => (pc' = "idle" /\ LoadsRaised' = NotPairs)
    ELSE NumValues(LineRead) # NumValues(DataPart(body)[1])
             => (pc' = "idle" /\ LoadsRaised' = Inconsistent)

\* C6: every step that reads a data line fails with the pairing error on
\* an odd first count and with the consistency error on a later count that
\* differs from the first line's (C6_Step).
C6_ColumnCountFixedByFirstLine == [][C6_Step]_vars

\* the frequency in Hz of the last data line the call accepted, 0 before any
LastAcceptedFreq ==
    IF Len(DataPart(body)) = 0 THEN 0
    ELSE FreqField(Last(DataPart(body))) * FactorOf(opts.unit)

\* C7: a data line whose frequency in Hz is not greater than that of the
\* last data line the call accepted (0 before any) fails with the ordering
\* error and appends no point to any series.
C7_Step ==
    (/\ ReadsDataLine
     /\ Len(LineRead) > 0
     /\ HasFreq(LineRead)
     /\ FreqField(LineRead) * FactorOf(opts.unit) <= LastAcceptedFreq)
    =>
    (pc' = "idle" /\ LoadsRaised' = NotAscending /\ sdata' = sdata)

\* C7: every step that reads a data line whose frequency is not above the
\* last accepted one fails with the ordering error and leaves the series as
\* they were (C7_Step).
C7_NotAscendingRejected == [][C7_Step]_vars

\* reached: a call accepted a line and failed on the next, of equal frequency
C7_Witness ==
    /\ pc = "idle" /\ op = "loads" /\ exc = NotAscending
    /\ Len(DataPart(body)) >= 2
    /\ LET n == Len(DataPart(body)) IN
        /\ HasFreq(DataPart(body)[n])
        /\ FreqField(DataPart(body)[n]) = FreqField(DataPart(body)[n - 1])
        /\ FreqField(DataPart(body)[n]) > 0
    /\ Len(NewPoints(1)) = Len(DataPart(body)) - 1

\* how many tokens of an option line are in the set S
Count(line, S) ==
    Cardinality({i \in 1..Len(OptTokens(line)) : OptTokens(line)[i] \in S})

Repeats(line) ==
    \/ Count(line, VALID_UNITS) > 1
    \/ Count(line, PARAM_KEYWORDS) > 1
    \/ Count(line, VALID_FORMATS) > 1
    \/ Count(line, {t_r}) > 1

\* C8: Options.parse fails whenever one of the four categories (unit,
\* parameter, format, `r <resistance>`) occurs more than once in the
\* options line, in every token order.  (The claim names the error, a
\* format error; stated here is that the call does not return normally.)
C8_RepeatedCategoryRejected ==
    (op = "parse" /\ startswith(body[1], "#") /\ Repeats(body[1]))
    => exc # NoExc

\* a token that is no keyword and not the value that follows `r`
IsOtherToken(line, i) ==
    /\ OptTokens(line)[i] \notin VALID_UNITS \cup PARAM_KEYWORDS \cup VALID_FORMATS \cup {t_r}
    /\ ~(i > 1 /\ OptTokens(line)[i - 1] = t_r)

HasOtherToken(line) == \E i \in 1..Len(OptTokens(line)) : IsOtherToken(line, i)

\* C9: Options.parse fails for every token that is not one of the unit
\* keywords, the single-letter parameter keywords s/y/z/g/h, the format
\* keywords or `r` with its value, and no other token is ever accepted as a
\* parameter.  (The claim names the error, a format error; stated here is
\* that the call does not return normally.)
C9_OtherTokensRejected ==
    /\ (op = "parse" /\ startswith(body[1], "#") /\ HasOtherToken(body[1]))
       => exc # NoExc
    /\ (op = "parse" /\ entry.opts.parameter \in PARAM_KEYWORDS)
       => opts.parameter \in PARAM_KEYWORDS

\* the points the data lines give slot k - 1, in line order, f the factor
RECURSIVE PointsOf(_, _, _)
PointsOf(lines, k, f) ==
    IF Len(lines) = 0 THEN <<>>
    ELSE (IF NumValues(lines[1]) >= 2 * k
          THEN <<Datapoint(FreqField(lines[1]) * f,
                           ValueField(lines[1], 2 * k - 1),
                           ValueField(lines[1], 2 * k))>>
          ELSE <<>>)
         \o PointsOf(Tail(lines), k, f)

\* C10: after a successful load_from_text on a parser that already holds
\* points and comments, each series is what it was when the call began
\* followed, in order, by the points of the body, and the comment list
\* likewise; no step of a call removes, reorders or changes a point or a
\* comment that was there.
C10_Result ==
    (pc = "idle" /\ op = "loads" /\ exc = NoExc)
    =>
    /\ \A k \in 1..NSLOTS :
        sdata[k] = entry.sdata[k] \o PointsOf(DataPart(body), k, FactorOf(opts.unit))
    /\ comments = entry.comments \o HeadComments_of(body)

C10_Keeps ==
    /\ \A k \in 1..NSLOTS : IsPrefix(sdata[k], sdata'[k])
    /\ IsPrefix(comments, comments')

\* C10: a successful call leaves each series and the comment list as they
\* were at its start followed by the body's points and comments
\* (C10_Result), and no step removes or changes what was there (C10_Keeps).
C10_IncrementalLoading == []C10_Result /\ [][C10_Keeps]_vars

\* reached: a successful call added a comment and a point to a parser that
\* held a point from a successful call before
C10_Witness ==
    /\ pc = "idle" /\ op = "loads" /\ exc = NoExc
    /\ Len(entry.sdata[1]) > 0
    /\ Len(sdata[1]) > Len(entry.sdata[1])
    /\ Len(comments) > Len(entry.comments)

\* `r` is the last token of an option line, or the token after it is no integer
RValueMissing(line) ==
    \E i \in 1..Len(OptTokens(line)) :
        /\ OptTokens(line)[i] = t_r
        /\ (i = Len(OptTokens(line)) \/ ~IsIntLiteral(OptTokens(line)[i + 1]))

\* an options line the specification calls malformed
Malformed(line) ==
    \/ ~startswith(line, "#")
    \/ Repeats(line)
    \/ HasOtherToken(line)
    \/ RValueMissing(line)

\* a step on which the specification has the call fail with a format error:
\* the text ends before an options line, or the options line is malformed
FormatFailureStep ==
    /\ pc = "comments"
    /\ \/ pc' = "idle" /\ nlines' = nlines
       \/ nlines' = nlines + 1 /\ ~startswith(LineRead, "!") /\ Malformed(LineRead)

\* a step on which the specification has the call fail with an ordering, a
\* pairing or a consistency error
DataFailureStep ==
    /\ ReadsDataLine
    /\ Len(LineRead) > 0
    /\ HasFreq(LineRead)
    /\ \/ FreqField(LineRead) * FactorOf(opts.unit) <= LastAcceptedFreq
       \/ Len(DataPart(body)) = 0 /\ NumValues(LineRead) % 2 = 1
       \/ Len(DataPart(body)) > 0 /\ NumValues(LineRead) # NumValues(DataPart(body)[1])

C11_Step ==
    (op = "load" /\ (FormatFailureStep \/ DataFailureStep))
    =>
    /\ pc' = "idle"
    /\ exc' = NoExc
    /\ logged' # NoExc
    /\ \A k \in 1..NSLOTS : IsPrefix(sdata[k], sdata'[k])

\* C11: load never raises to its caller for a failure of the four kinds
\* (format, ordering, pairing, consistency) inside loads: on every step of
\* a load call where the body fails in one of these ways, load logs the
\* failure and returns, and the points appended before are still there.
C11_LoadReportsStructureFailures == [][C11_Step]_vars

\* C12: Options.parse fails with the format error of an unrecognized token
\* when `r` is the last token of the line or the token after `r` is not an
\* integer.
C12_RValueMissingRejected ==
    (op = "parse" /\ startswith(body[1], "#") /\ RValueMissing(body[1]))
    => exc = IllegalOptionLine

\* C13: in every state reached from a constructed Options by any sequence
\* of parse calls, failed ones included, resistance is above 0 and unit,
\* parameter and format each hold one value of their enumeration
\* ({ghz, mhz, khz, hz}, {s, y, z, g, h}, {ma, db, ri}).
C13_OptionsInvariant == ValidOptions(opts)

\* the body of the call has no options line: every line read is a comment
\* and the text has ended
NoOptionsLine == pc = "idle" /\ op = "loads" /\ OptIndex(body) > Len(body)

\* C14: load_from_text on a body with no options line (an empty text, or
\* only `!` lines) fails with the format error of a malformed options line.
C14_MissingOptionsLineIsFormatError ==
    NoOptionsLine => exc \in {NotAnOptionLine, IllegalOptionLine}

\* a data line with an inline comment after its fields
HasInlineComment(line) ==
    /\ \E i \in 1..Len(line) : HasBang(line[i])
    /\ Len(Fields(line)) > 0

C15_Step ==
    /\ (nlines' = nlines + 1 /\ startswith(LineRead, "!"))
       => (pc' = pc /\ sdata' = sdata /\ opts' = opts)
    /\ (ReadsDataLine /\ HasInlineComment(LineRead))
       => LET r == loads_line(sdata, opts, prev_freq, prev_len, Fields(LineRead)) IN
          /\ sdata' = r.sdata
          /\ (pc' = "data") = (r.exc = NoExc)

\* C15: a comment never produces an error: a step that reads a line whose
\* first character is `!`, before the options line or among the data lines,
\* does not end the call and changes neither series nor options, and a data
\* line with an inline comment is handled as the same line without
\* everything from its first `!`.
C15_CommentsNeverFail == [][C15_Step]_vars

\* the linear magnitude 10^(v / 20) of v decibels, at 0 dB and 20 dB
DbMagnitude(v) == CASE v = 0 -> 1 [] v = 20 -> 10

C16_DbStep ==
    (/\ ReadsDataLine
     /\ opts.format = t_db
     /\ Len(DataPart(body)) = 0
     /\ HasFreq(LineRead) /\ AllNumeric(LineRead)
     /\ FreqField(LineRead) > 0
     /\ NumValues(LineRead) \in {2 * n : n \in 1..NSLOTS})
    =>
    /\ pc' = "data"
    /\ \A i \in 1..(NumValues(LineRead) \div 2) :
        LET v1 == ValueField(LineRead, 2 * i - 1)
            v2 == ValueField(LineRead, 2 * i)
        IN  /\ Len(sdata'[i]) = Len(sdata[i]) + 1
            /\ (v1 \in {0, 20} /\ v2 = 0) =>
                /\ Last(sdata'[i]).re = DbMagnitude(v1)
                /\ Last(sdata'[i]).im = 0

\* C16: with format db, each pair (v1 decibels, v2 degrees) of a data line
\* appends one point to its slot with magnitude 10^(v1 / 20), in rectangular
\* form: (0, 0) gives real 1, imaginary 0 and (20, 0) gives real 10,
\* imaginary 0.  Stated for the first data line of a body, with 1 to 4 pairs
\* of numbers and a frequency above 0.
C16_DbPairsAppended == [][C16_DbStep]_vars

\* a loads call ended in Options.parse: the options line is the last line read
OptionsLineFailed ==
    /\ pc = "idle" /\ op = "loads" /\ exc # NoExc
    /\ OptIndex(body) = Len(body)

\* C17: when Options.parse fails on the options line inside load_from_text,
\* the four series and the option settings (unit, parameter, format,
\* resistance) are after the call what they were before it.
C17_FailedOptionsLeaveState ==
    OptionsLineFailed => (sdata = entry.sdata /\ opts = entry.opts)

\* the comment list is what it was when the call began followed by the
\* `!` lines read before the first other line, and a failed call is over
C18_Comments ==
    /\ comments = entry.comments \o HeadComments_of(body)
    /\ exc # NoExc => pc = "idle"

C18_Step ==
    /\ (pc = "comments" /\ pc' = "comments")
       => (nlines' = nlines + 1 /\ startswith(LineRead, "!")
           /\ opts' = opts /\ sdata' = sdata)
    /\ (pc = "comments" /\ pc' # "comments" /\ nlines' = nlines + 1)
       => (~startswith(LineRead, "!") /\ OptIndex(body') = Len(body')
           /\ comments' = comments /\ sdata' = sdata)
    /\ (pc = "comments" /\ pc' = "data") => exc' = NoExc
    /\ pc = "data"
       => (pc' \in {"data", "idle"} /\ comments' = comments /\ opts' = opts)
    /\ pc = "idle"
       => (pc' \in {"idle", "comments"} /\ nlines' = nlines
           /\ sdata' = sdata /\ comments' = comments /\ opts' = opts)

\* C18: within a call the phases only advance (comments, options, data,
\* then done or failed): the comment list grows by the `!` lines before the
\* first other line, in order; the option settings change only on the step
\* that reads that first other line; in the data phase no line changes the
\* comments or the options; and after the call has failed no line is read
\* and series, comments and options stay as they are.
C18_PhasesOnlyAdvance == []C18_Comments /\ [][C18_Step]_vars

\* reached: a call read two different comments, an options line and a data
\* line, and failed on the next data line
C18_Witness ==
    /\ pc = "idle" /\ op = "loads" /\ exc = NotAscending
    /\ Len(HeadComments_of(body)) = 2
    /\ body[1] # body[2]
    /\ Len(DataPart(body)) = 2
    /\ Len(NewPoints(1)) = 1

C19_Step ==
    ReadsDataLine =>
    IF pc' = "data"
    THEN \A k \in 1..NSLOTS :
             Len(sdata'[k]) = Len(sdata[k])
                 + (IF Len(LineRead) > 0 /\ 2 * k <= NumValues(LineRead) THEN 1 ELSE 0)
    ELSE sdata' = sdata

\* C19: each data line is applied to the series as a whole: a step that
\* reads a data line, with any number of values, either accepts it and
\* appends one point for each pair, to slots 0, 1, ... in turn, or fails and
\* appends no point to any slot.
C19_DataLineAtomic == [][C19_Step]_vars

\* the call has read its options line, which begins with "#"
HasOptionsLine ==
    /\ op \in {"loads", "load"}
    /\ OptIndex(body) <= Len(body)
    /\ startswith(body[OptIndex(body)], "#")

OptionsLine == body[OptIndex(body)]

\* a category that the options line does not name has the value the parser
\* held when the call began
C20_Kept ==
    HasOptionsLine =>
    /\ Count(OptionsLine, PARAM_KEYWORDS) = 0 => opts.parameter = entry.opts.parameter
    /\ Count(OptionsLine, VALID_FORMATS) = 0 => opts.format = entry.opts.format
    /\ Count(OptionsLine, {t_r}) = 0 => opts.resistance = entry.opts.resistance

\* the first data line of a body whose options line names no format, in a
\* parser that held format ri, is converted as ri
C20_Step ==
    (/\ ReadsDataLine
     /\ HasOptionsLine
     /\ Count(OptionsLine, VALID_FORMATS) = 0
     /\ entry.opts.format = t_ri
     /\ Len(DataPart(body)) = 0
     /\ HasFreq(LineRead) /\ AllNumeric(LineRead)
     /\ FreqField(LineRead) > 0
     /\ NumValues(LineRead) \in {2 * n : n \in 1..NSLOTS})
    =>
    /\ pc' = "data"
    /\ \A i \in 1..(NumValues(LineRead) \div 2) :
        sdata'[i] = Append(sdata[i],
                           Datapoint(FreqField(LineRead) * FactorOf(opts.unit),
                                     ValueField(LineRead, 2 * i - 1),
                                     ValueField(LineRead, 2 * i)))

\* C20: option settings persist across load_from_text calls on one parser:
\* a category (parameter, format, resistance) that the options line of a
\* later call does not name keeps the value the earlier calls left, not the
\* constructor default (C20_Kept), and the format kept is the one that
\* converts the data lines of the later body (C20_Step).
C20_OptionsPersist == []C20_Kept /\ [][C20_Step]_vars

\* reached: after a call set format ri and resistance 75, a call whose
\* options line is "#" alone has stored a point as ri
C20_Witness ==
    /\ pc = "idle" /\ op = "loads" /\ exc = NoExc
    /\ HasOptionsLine
    /\ OptionsLine = <<t_hash>>
    /\ entry.opts.format = t_ri
    /\ entry.opts.resistance = 75
    /\ opts = entry.opts
    /\ Len(NewPoints(1)) = 1
    /\ Last(sdata[1]).re = 3 /\ Last(sdata[1]).im = -4

====
